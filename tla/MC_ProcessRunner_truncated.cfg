CONSTANTS
    NumLines = 3
    PipeCap = 2
    InvalidChoices = {{2}}
    ExitCodes = {0}
SPECIFICATION Spec
INVARIANT CaptureComplete
