CONSTANTS
    a = a
    b = b
    z = z
    r1 = r1
    r2 = r2
    Absent = Absent
    None = None
    TestPlans <- MC_TestPlans
    TargetChoices <- MC_TargetChoices
    Coverage <- MC_Coverage
    Runs <- MC_Runs
    MC_Runs = {r1}
    Tolerance = 15
    Overlap = FALSE
    CleanupMayFail = TRUE
SPECIFICATION MC_Spec
INVARIANT ExitZeroIsSuccess
