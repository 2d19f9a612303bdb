SPECIFICATION Spec
CONSTANTS
    Writers = {w1}
    Ticker = tick
    Viewers = {view}
    Workers = {work}
    Contents = {a, b}
    NoHash = NoHash
    QuietPeriod = 0
    MaxDelay = 1
    MaxLines = 2
    RetainCommitted = 1
    CommitIdsPerRecord = 1
    MaxMutations = 2
    MaxFaults = 1
    MaxRequests = 1
    None = None
INVARIANTS
    TypeOK
    SettledIsCaptured
    IdleMeansCurrent
    LastBackupExists
    NoIdenticalCopies
    SeenHasTimers
PROPERTIES
    OwedLeavesByCommit
    OnlyIdleRunForgets
