CONSTANTS
    p1 = p1
    p2 = p2
    m1 = m1
    m2 = m2
    None = None
    Absent = Absent
    Missing = Missing
    Malformed = Malformed
    NoTotal = NoTotal
    Paths <- MC_Paths
    Idents <- MC_Idents
    Works <- MC_AnyWorks
    MaxBody = 3
SPECIFICATION Spec
INVARIANT GoPlanFollowsSpec
