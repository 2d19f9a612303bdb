CONSTANTS
    NumGroups = 2
    MaxImports = 2
    MaxRows = 1
    MaxFaults = 3
    Ordered = TRUE
    Absent = Absent
    Torn = Torn
SPECIFICATION Spec
INVARIANTS TypeOK NeverStranded
PROPERTIES AllOrNothing
CHECK_DEADLOCK FALSE
