SPECIFICATION Spec
CONSTANTS
    MaxLines = 3
    MaxDown = 3
INVARIANTS
    BackFromAuto
    AwayShown
    ManualKept
CHECK_DEADLOCK FALSE
