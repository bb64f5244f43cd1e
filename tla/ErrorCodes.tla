----------------------------- MODULE ErrorCodes -----------------------------
(***************************************************************************)
(* The three kinds of error code that the library converts into each       *)
(* other (result_macros.h): HRESULT, NTSTATUS and Win32 errors.  All are   *)
(* 32-bit integers, signed here, so that a failed HRESULT or NTSTATUS is   *)
(* a negative number and the bits of the code are arithmetic.              *)
(***************************************************************************)
EXTENDS Integers

CONSTANT Dos   \* RtlNtStatusToDosErrorNoTeb, for the statuses it has an error for

Int32 == {c \in Int : -2147483647 - 1 <= c /\ c <= 2147483647}

\* The Win32 errors that an HRESULT has room for.
Errors == {e \in Nat : e < 65536}

\* The error codes that the conversions name.
Win32Code(c) == c - 2147024896            \* 0x80070000 + c
NtCode(c) == c - 1073741824               \* 0xC0000000 + c
ComCode(c) == c - 2147483647 - 1          \* 0x80000000 + c
S_OK == 0
E_FAIL == ComCode(16389)
E_UNEXPECTED == ComCode(65535)
E_BOUNDS == ComCode(11)
E_OUTOFMEMORY == Win32Code(14)
E_INVALIDARG == Win32Code(87)
STATUS_NO_MEMORY == NtCode(23)
STATUS_INTERNAL_ERROR == NtCode(229)
ERROR_MR_MID_NOT_FOUND == 317
ERROR_ASSERTION_FAILURE == 668
UnhandledException == Win32Code(574)

ASSUME DosAssumption ==
    /\ DOMAIN Dos \subseteq Int32
    /\ \A s \in DOMAIN Dos : Dos[s] \in Errors

Failed(code) == code < 0

\* The bit that marks an NTSTATUS within an HRESULT, and the facility.
FACILITY_NT_BIT == 268435456
HasNtBit(code) == (code \div FACILITY_NT_BIT) % 2 = 1
Facility(code) == (code \div 65536) % 8192
FACILITY_WIN32 == 7
FACILITY_SSPI == 9

\* A negative number is taken for an HRESULT already.
HresultFromWin32(err) ==
    IF err <= 0 THEN err ELSE Win32Code(err % 65536)

\* __WIN32_FROM_HRESULT: what has no Win32 error stays as it is.
Win32FromHr(hr) ==
    IF ~Failed(hr) THEN 0
    ELSE IF Facility(hr) = FACILITY_WIN32 THEN hr % 65536 ELSE hr

\* Zero stands for a status that Windows has no error for as well.
DosError(status) == IF status \in DOMAIN Dos THEN Dos[status] ELSE ERROR_MR_MID_NOT_FOUND

HresultFromNt(status) ==
    IF HasNtBit(status) THEN status ELSE status + FACILITY_NT_BIT

NtStatusToHr(status) ==
    IF ~Failed(status) THEN S_OK
    ELSE IF status = STATUS_NO_MEMORY THEN E_OUTOFMEMORY
    ELSE IF DosError(status) \notin {0, ERROR_MR_MID_NOT_FOUND} THEN HresultFromWin32(DosError(status))
    ELSE HresultFromNt(status)

\* The HRESULTs that have an NTSTATUS of their own.
StatusTable ==
    { <<S_OK, 0>>,
      <<Win32Code(87), NtCode(13)>>,        \* E_INVALIDARG
      <<Win32Code(1359), NtCode(229)>>,     \* ERROR_INTERNAL_ERROR
      <<E_OUTOFMEMORY, STATUS_NO_MEMORY>>,
      <<Win32Code(534), NtCode(149)>>,      \* ERROR_ARITHMETIC_OVERFLOW
      <<Win32Code(3), NtCode(58)>>,         \* ERROR_PATH_NOT_FOUND
      <<Win32Code(2), NtCode(52)>>,         \* ERROR_FILE_NOT_FOUND
      <<Win32Code(1), NtCode(2)>>,          \* ERROR_INVALID_FUNCTION
      <<Win32Code(234), ComCode(5)>>,       \* ERROR_MORE_DATA
      <<Win32Code(1292), NtCode(1067)>>,    \* ERROR_IMPLEMENTATION_LIMIT
      <<Win32Code(626), NtCode(627)>>,      \* ERROR_NO_MORE_MATCHES
      <<Win32Code(582), NtCode(353)>>,      \* ERROR_ILLEGAL_CHARACTER
      <<Win32Code(583), NtCode(355)>>,      \* ERROR_UNDEFINED_CHARACTER
      <<Win32Code(122), NtCode(35)>>,       \* ERROR_INSUFFICIENT_BUFFER
      <<Win32Code(112), NtCode(127)>>,      \* ERROR_DISK_FULL
      <<Win32Code(123), NtCode(51)>>,       \* ERROR_INVALID_NAME
      <<Win32Code(126), NtCode(309)>>,      \* ERROR_MOD_NOT_FOUND
      <<Win32Code(1150), NtCode(89)>>,      \* ERROR_OLD_WIN_VERSION
      <<E_FAIL, NtCode(1)>>,
      <<Win32Code(1465), NtCode(41091)>>,   \* ERROR_XML_PARSE_ERROR
      <<UnhandledException, NtCode(37)>> }

HasStatus(hr) == \E row \in StatusTable : row[1] = hr
StatusOf(hr) == (CHOOSE row \in StatusTable : row[1] = hr)[2]

\* A Win32 code of zero, the HRESULT 0x80070000, becomes success here.
StatusFromWin32(err) ==
    IF err <= 0 THEN err ELSE NtCode(FACILITY_WIN32 * 65536 + err)

HrToNtStatus(hr) ==
    IF HasStatus(hr) THEN StatusOf(hr)
    ELSE IF HasNtBit(hr) THEN hr - FACILITY_NT_BIT
    ELSE IF Facility(hr) = FACILITY_WIN32 THEN StatusFromWin32(hr % 65536)
    ELSE IF Facility(hr) = FACILITY_SSPI /\ hr <= 0 THEN hr
    ELSE IF Facility(hr) = FACILITY_SSPI THEN NtCode(FACILITY_SSPI * 65536 + (hr % 65536))
    ELSE STATUS_INTERNAL_ERROR

\* wil::details::ResultStatus: a failure as an HRESULT and as an NTSTATUS,
\* and which of the two it was reported as.
FromResult(hr) == [hr |-> hr, status |-> HrToNtStatus(hr), kind |-> "HResult"]
FromStatus(status) == [hr |-> NtStatusToHr(status), status |-> status, kind |-> "NtStatus"]
=============================================================================
