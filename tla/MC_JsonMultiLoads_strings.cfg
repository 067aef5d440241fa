CONSTANTS
    StringUnits <- MC_StringUnits
    MaxUnits = 1
    MaxDepth = 1
    MaxValues = 2
SPECIFICATION Spec
INVARIANT YieldsEachValue
