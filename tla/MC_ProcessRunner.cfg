\* No deadlock check: a stuck run is what RunReturns reports.
CONSTANTS
    NumLines = 10
    PipeCap = 3
    InvalidChoices = {{}}
    ExitCodes = {0, 1}
SPECIFICATION Spec
INVARIANT TypeOK CaptureComplete
PROPERTY RunReturns
CHECK_DEADLOCK FALSE
