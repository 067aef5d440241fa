CONSTANTS
    a = a
    b = b
    z = z
    r1 = r1
    r2 = r2
    Absent = Absent
    None = None
    TestPlans <- MC_TestPlans
    TargetChoices <- MC_TargetChoices
    Coverage <- MC_Coverage
    Runs <- MC_Runs
    MC_Runs = {r1, r2}
    Tolerance = 15
    Overlap = TRUE
    CleanupMayFail = TRUE
SPECIFICATION MC_Spec
SYMMETRY MC_Symmetry
PROPERTY PersistedBaselineSafe
