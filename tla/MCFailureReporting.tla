------------------------- MODULE MCFailureReporting -------------------------
EXTENDS FailureReporting, TLC

\* ERROR_FILE_NOT_FOUND has an NTSTATUS of its own, ERROR_INVALID_HANDLE and
\* E_NOINTERFACE have none, 0x80070000 has none but success.
MCHrs == {Win32Code(2), ComCode(16386), Win32Code(0)}
MCErrs == {0, 2, 6}
\* STATUS_NO_MEMORY, a mapped and an unmapped status, and a warning.
MCStatuses == {STATUS_NO_MEMORY, NtCode(320), NtCode(8), ComCode(5)}
MCDos == NtCode(8) :> 6 @@ ComCode(5) :> 234 @@ NtCode(320) :> 0
=============================================================================
