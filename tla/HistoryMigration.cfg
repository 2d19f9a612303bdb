CONSTANTS
    MaxRows = 4
    MaxFaults = 5
    Ordered = FALSE
    Absent = Absent
    Torn = Torn
SPECIFICATION Spec
INVARIANTS TypeOK OpenIsWhole RecoveryReady
PROPERTIES DivergentPreserved ImplementsContract
CHECK_DEADLOCK FALSE
