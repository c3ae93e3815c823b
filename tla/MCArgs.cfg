CONSTANTS
    Prototypes <- MCPrototypes
    Var <- MCVar
    MaxCount = 3
SPECIFICATION Spec
INVARIANTS CountsAgree ReportedLength EmptyNameIsSafe NothingUninitialised PanicNeedsCount
PROPERTIES CallMovesOn
CHECK_DEADLOCK FALSE
