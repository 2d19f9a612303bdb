SPECIFICATION Spec
CONSTANTS
    Ops = {1, 2}
    KindsOf <- MCKindsOf
    CallsPerOp = 2
    Limits = {1, 2}
    MaxConcurrency = 1
    BaseDelay = 1
    MaxDelay = 1
    MaxFailures = 1
INVARIANTS
    TypeOK
    SlotsConserved
    QueuedForAReason
    RunningHoldsSlot
    NeverStuck
PROPERTIES
    NothingSentWhileCooling
    AdmissionInTurn
    NoSessionLeftBehind
