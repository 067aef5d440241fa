CONSTANTS
    FileSuffixes <- MC_Suffixes
    Years <- MC_YearsAny
    MaxFree = 2
SPECIFICATION Spec
INVARIANTS
    AuditLeavesOneHeader
