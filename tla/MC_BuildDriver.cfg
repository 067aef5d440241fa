\* No deadlock check: a stuck invocation, call of run or code generation is
\* what RunReturns and GenerationTerminates report; a finished
\* "beagle test" stutters.
CONSTANTS
    TargetChoices <- MC_TargetChoices
    MaxRuns = 3
    MaxEdits = 1
    Absent = Absent
    Empty = Empty
    None = None
    NumLines = 10
    PipeCap = 3
    InvalidChoices = {{}}
    ExitCodes = {0, 1}
    Workers = 2
    ListError = ListError
    MaxLines = 2
    r1 = r1
    r2 = r2
    a = a
    b = b
    c = c
    d = d
    ta = ta
    tb = tb
    tz = tz
    inv = inv
SPECIFICATION Spec
INVARIANTS
    TypeOK
    FreshUIWhenBuiltTogether
    CaptureComplete
    CleanupAlways
    ExitZeroMeansGated
PROPERTIES
    ImplementsPlanDriver
    RunReturns
    ImplementsFanOutJoin
    GenerationTerminates
    PersistedBaselineSafe
    TestImplementsPlanDriver
CHECK_DEADLOCK FALSE
