CONSTANTS
    p1 = p1
    p2 = p2
    m1 = m1
    m2 = m2
    None = None
    Absent = Absent
    Missing = Missing
    Malformed = Malformed
SPECIFICATION Spec
INVARIANTS
    YieldsEachValue
    DiscoveryMatchesDescriptors
    AuditLeavesOneHeader
    ContentPreserved
    AuditIdempotent
    ExecutablesBuilt
    LatestVersionLabel
