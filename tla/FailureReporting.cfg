SPECIFICATION Spec
CONSTANTS
    Hrs <- MCHrs
    Errs <- MCErrs
    Statuses <- MCStatuses
    Dos <- MCDos
    Depth = 2
INVARIANTS
    FailureStaysFailure
    CodeSurvives
    GuardsAreHonoured
PROPERTY
    ThrownOnce
CHECK_DEADLOCK FALSE
