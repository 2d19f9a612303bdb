SPECIFICATION Spec
CONSTANTS
    Artifacts = {a1, a2}
    MaxFaults = 5
    None = None
INVARIANTS
    TypeOK
    PublishedIsOwned
    VerifiedSurvives
PROPERTIES
    ForeignUntouched
    StartupResolves
CHECK_DEADLOCK FALSE
