CONSTANTS
    MaxRows = 2
    MaxGenerations = 2
    MaxFaults = 2
    Ordered = TRUE
    Absent = Absent
    Torn = Torn
SPECIFICATION Spec
INVARIANT EvidenceKept
CHECK_DEADLOCK FALSE
