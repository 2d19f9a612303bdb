SPECIFICATION FairSpec
CONSTANTS
    Writers = {w1}
    Ticker = tick
    Viewers = {}
    Workers = {work}
    Contents = {a, b}
    NoHash = NoHash
    QuietPeriod = 0
    MaxDelay = 1
    MaxLines = 2
    RetainCommitted = 1
    CommitIdsPerRecord = 1
    MaxMutations = 2
    MaxFaults = 0
    MaxRequests = 1
    None = None
PROPERTIES
    EventuallySettled
