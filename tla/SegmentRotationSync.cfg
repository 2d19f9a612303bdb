CONSTANTS
    MaxRows = 2
    MaxGenerations = 2
    MaxFaults = 2
    Ordered = FALSE
    Absent = Absent
    Torn = Torn
SPECIFICATION Spec
INVARIANT RetiredAfterSync
CHECK_DEADLOCK FALSE
