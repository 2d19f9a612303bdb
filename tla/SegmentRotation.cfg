CONSTANTS
    MaxRows = 4
    MaxGenerations = 3
    MaxFaults = 4
    Ordered = TRUE
    Absent = Absent
    Torn = Torn
SPECIFICATION Spec
INVARIANTS TypeOK HistoryIntact RecoveryReady
PROPERTY ImplementsContract
CHECK_DEADLOCK FALSE
